---- MODULE Spec2Model ----
(***************************************************************************)
(* A model of src/main.py, the market signal backend: pair resolution      *)
(* (_asset_pairs, _alt_from_symbol), the signal functions                  *)
(* (_whale_pressure, _bias_from_features, _entry_plan) and the snapshot    *)
(* cache and loop of compute_snapshot.                                     *)
(*                                                                         *)
(* Python strings are sequences of one-character strings, so that          *)
(* concatenation, upper() and startswith() are computed, not assumed.      *)
(* A missing value (None, or the "" that `x or ""` makes of it) is the     *)
(* empty sequence.                                                         *)
(***************************************************************************)
EXTENDS Integers, Sequences, FiniteSets, TLC

VARIABLES
    \* ---- pair resolution (_asset_pairs result, _alt_from_symbol) ----
    rs_pc,        \* "start" | "fetched" | "resolved"
    rs_upstream,  \* the AssetPairs "result" of the venue, in its order
    rs_symbol,    \* the symbol to resolve
    rs_pairs,     \* the dict _asset_pairs() built
    rs_alt,       \* what _alt_from_symbol returned
    \* ---- _bias_from_features ----
    bf_pc,        \* "start" | "done"
    bf_mom,       \* mom, in thousandths
    bf_whale,     \* whale_score, in hundredths
    bf_out,       \* the (label, score) returned, score in thousandths
    \* ---- _whale_pressure ----
    wp_pc,        \* "start" | "done"
    wp_depth,     \* the depth payload: bids and asks, each a list of (price, qty)
    wp_min_usd,   \* min_usd
    wp_max_levels,\* max_levels
    wp_out,       \* the locals and the result of the call
    \* ---- the signal part of one compute_snapshot iteration ----
    ep_pc,        \* "start" | "done"
    ep_mom,       \* mom, in thousandths
    ep_whale,     \* whale_score, in hundredths
    ep_price,     \* price, in 1e-9
    ep_atr,       \* atr, in 1e-9
    ep_reason,    \* the reason record built: bias, score, entry
    \* ---- compute_snapshot and the requests that call it ----
    cfg,            \* CFG: symbols, snapshot_ttl_sec, discover
    clock,          \* time.time()
    feed,           \* the version of the venue's market data
    snapshot_cache, \* _snapshot_cache: ts and payload
    pairs_cache,    \* the lru_cache of _asset_pairs
    threads,        \* the request threads that run
    th              \* per thread: the position in compute_snapshot and its locals

rsVars == <<rs_pc, rs_upstream, rs_symbol, rs_pairs, rs_alt>>
bfVars == <<bf_pc, bf_mom, bf_whale, bf_out>>
wpVars == <<wp_pc, wp_depth, wp_min_usd, wp_max_levels, wp_out>>
epVars == <<ep_pc, ep_mom, ep_whale, ep_price, ep_atr, ep_reason>>

snVars == <<cfg, clock, feed, snapshot_cache, pairs_cache, threads, th>>

vars == <<rsVars, bfVars, wpVars, epVars, snVars>>

(***************************************************************************)
(* Bounds of the model                                                     *)
(***************************************************************************)
\* the longest AssetPairs result
MaxDir == 3
\* the largest |mom|, in thousandths
MaxMom == 150
\* the longest side of an order book
MaxLevels == 2
\* the request threads
NThreads == 2
\* the calls of compute_snapshot a thread makes
MaxCalls == 2
\* the last second of the clock
MaxClock == 2
\* the largest snapshot_ttl_sec
MaxTtl == 2
\* the TTL, in seconds, that a directory with a TTL would have
MetaTtl == 1

(***************************************************************************)
(* Strings                                                                 *)
(***************************************************************************)
None == <<>>
USD == <<"U", "S", "D">>
USDT == <<"U", "S", "D", "T">>
EUR == <<"E", "U", "R">>
Slash == <<"/">>

\* str.upper() on the letters the model uses
UpperChar(c) ==
    CASE c = "a" -> "A"
      [] c = "b" -> "B"
      [] OTHER -> c

Upper(s) == [i \in DOMAIN s |-> UpperChar(s[i])]

\* str.startswith(prefix)
StartsWith(s, prefix) ==
    /\ Len(prefix) <= Len(s)
    /\ SubSeq(s, 1, Len(prefix)) = prefix

(***************************************************************************)
(* _asset_pairs: the dict altname -> meta, in insertion order              *)
(***************************************************************************)
\* index of key alt in the dict d, 0 when absent
KeyIndex(d, alt) ==
    IF \E i \in DOMAIN d : d[i].altname = alt
    THEN CHOOSE i \in DOMAIN d : d[i].altname = alt
    ELSE 0

\* `alt in pairs`
HasKey(d, alt) == KeyIndex(d, alt) # 0

\* pairs[alt] = {...}: a new key is appended, a known key keeps its place
DictPut(d, meta) ==
    IF HasKey(d, meta.altname)
    THEN [d EXCEPT ![KeyIndex(d, meta.altname)] = meta]
    ELSE Append(d, meta)

RECURSIVE BuildPairsFrom(_, _, _)
BuildPairsFrom(result, i, d) ==
    IF i > Len(result) THEN d
    ELSE BuildPairsFrom(result, i + 1,
             DictPut(d, [code |-> result[i].code,
                         altname |-> result[i].altname,
                         wsname |-> result[i].wsname,
                         base |-> result[i].base,
                         quote |-> result[i].quote]))

\* the loop of _asset_pairs over result.items()
BuildPairs(result) == BuildPairsFrom(result, 1, <<>>)

(***************************************************************************)
(* _alt_from_symbol                                                        *)
(***************************************************************************)
\* the fallback loop: the first alt whose wsname starts with SYMBOL + "/"
RECURSIVE FirstByWsname(_, _, _)
FirstByWsname(pairs, sym, i) ==
    IF i > Len(pairs) THEN None
    ELSE IF StartsWith(pairs[i].wsname, Upper(sym) \o Slash)
         THEN pairs[i].altname
         ELSE FirstByWsname(pairs, sym, i + 1)

\* the mutant: USDT tried before USD
AltFromSymbolUsdtFirst(symbol, pairs) ==
    IF HasKey(pairs, Upper(symbol) \o USDT) THEN Upper(symbol) \o USDT
    ELSE IF HasKey(pairs, Upper(symbol) \o USD) THEN Upper(symbol) \o USD
    ELSE FirstByWsname(pairs, symbol, 1)

AltFromSymbol(symbol, pairs) ==
    IF HasKey(pairs, Upper(symbol) \o USD) THEN Upper(symbol) \o USD
    ELSE IF HasKey(pairs, Upper(symbol) \o USDT) THEN Upper(symbol) \o USDT
    ELSE FirstByWsname(pairs, symbol, 1)

(***************************************************************************)
(* Arithmetic.  Python floats are modelled by exact fixed-point integers:  *)
(* scores in thousandths, whale_score in hundredths, prices in 1e-9.       *)
(***************************************************************************)
Min(a, b) == IF a <= b THEN a ELSE b
Max(a, b) == IF a >= b THEN a ELSE b

\* round(num/den) to the nearest integer, ties to even, as Python's round()
Round(num, den) ==
    LET q == num \div den
        r == num % den
    IN  IF 2 * r < den THEN q
        ELSE IF 2 * r > den THEN q + 1
        ELSE IF q % 2 = 0 THEN q ELSE q + 1

(***************************************************************************)
(* _bias_from_features                                                     *)
(***************************************************************************)
\* 0.25 and -0.25, in thousandths
BuyThreshold == 250
SellThreshold == -250

\* score = 0.6 * whale_score + 0.4 * (mom * 10), in thousandths, for
\* whale_score in hundredths and mom in thousandths
BlendScore(mom, whale_score) == 6 * whale_score + 4 * mom

\* max(-1.0, min(1.0, score))
ClampScore(score) == Max(-1000, Min(1000, score))

\* the mutant: >= and <= for > and <
LabelOfInclusive(score) ==
    IF score >= BuyThreshold THEN "BUY"
    ELSE IF score <= SellThreshold THEN "SELL"
    ELSE "HOLD"

LabelOf(score) ==
    IF score > BuyThreshold THEN "BUY"
    ELSE IF score < SellThreshold THEN "SELL"
    ELSE "HOLD"

BiasFromFeatures(mom, whale_score) ==
    LET score == ClampScore(BlendScore(mom, whale_score))
    IN  [label |-> LabelOf(score), score |-> score]

(***************************************************************************)
(* _whale_pressure                                                         *)
(***************************************************************************)
\* side[:max_levels]
Take(side, n) == SubSeq(side, 1, Min(n, Len(side)))

\* the loop of usd(side): s and bigs after the levels from i on
RECURSIVE UsdFrom(_, _, _, _, _)
UsdFrom(side, min_usd, i, s, bigs) ==
    IF i > Len(side) THEN [s |-> s, bigs |-> bigs]
    ELSE LET p == side[i][1]
             q == side[i][2]
             u == p * q
         IN  IF u >= min_usd
             THEN UsdFrom(side, min_usd, i + 1, s + u,
                          Append(bigs, [price |-> p, qty |-> q, usd |-> u]))
             ELSE UsdFrom(side, min_usd, i + 1, s, bigs)

\* the mutant: every level counted, whale or not
UsdUnfiltered(side, min_usd) == UsdFrom(side, 0, 1, 0, <<>>)

Usd(side, min_usd) == UsdFrom(side, min_usd, 1, 0, <<>>)

\* the score is the exact fraction num/den
WhalePressure(depth, min_usd, max_levels) ==
    LET bids == Take(depth.bids, max_levels)
        asks == Take(depth.asks, max_levels)
        b == Usd(bids, min_usd)
        a == Usd(asks, min_usd)
        total == IF b.s + a.s # 0 THEN b.s + a.s ELSE 1
    IN  [bid_usd |-> b.s, ask_usd |-> a.s,
         score |-> [num |-> b.s - a.s, den |-> total],
         big_bids |-> b.bigs, big_asks |-> a.bigs]

(***************************************************************************)
(* _entry_plan.  price and atr in 1e-9; the plan's prices are rounded to   *)
(* 6 places (units of 1e-6), rr to 2 places (hundredths).                  *)
(***************************************************************************)
NoPlan == [plan |-> "none"]

\* the value of atr after `if atr <= 0: atr = price * 0.005`, as num/den
EffectiveAtr(price, atr) ==
    IF atr <= 0 THEN [num |-> price, den |-> 200] ELSE [num |-> atr, den |-> 1]

\* the mutant: the planner of the design, no plan without volatility
EntryPlanNoneOnZeroAtr(price, atr) ==
    IF atr <= 0 THEN NoPlan
    ELSE [plan |-> "plan",
          buy_zone |-> <<Round(price * 995, 1000000), Round(price * 1005, 1000000)>>,
          sell_zone |-> <<Round(price * 995, 1000000), Round(price * 1005, 1000000)>>,
          sl |-> Round(2 * price - 3 * atr, 2000),
          tp1 |-> Round(2 * price + 3 * atr, 2000),
          tp2 |-> Round(price + 3 * atr, 1000),
          rr |-> Round(600 * atr, 3 * atr + 2)]

\* rr = round(3.0*atr / (1.5*atr + 1e-9), 2): with atr = num/den in 1e-9,
\* 100 * 3a / (1.5a + 1) = 600 num / (3 num + 2 den)
EntryPlan(price, atr) ==
    LET a == EffectiveAtr(price, atr)
    IN  [plan |-> "plan",
         buy_zone |-> <<Round(price * 995, 1000000), Round(price * 1005, 1000000)>>,
         sell_zone |-> <<Round(price * 995, 1000000), Round(price * 1005, 1000000)>>,
         sl |-> Round(2 * price * a.den - 3 * a.num, 2000 * a.den),
         tp1 |-> Round(2 * price * a.den + 3 * a.num, 2000 * a.den),
         tp2 |-> Round(price * a.den + 3 * a.num, 1000 * a.den),
         rr |-> Round(600 * a.num, 3 * a.num + 2 * a.den)]

\* lines 254-269 of compute_snapshot: the bias, then the entry, then the reason
Reason(mom, whale_score, price, atr) ==
    LET b == BiasFromFeatures(mom, whale_score)
        entry == EntryPlan(price, atr)
    IN  [bias |-> b.label, score |-> b.score, entry |-> entry]

(***************************************************************************)
(* _discover_usd_symbols and _ensure_universe: the pure parts              *)
(***************************************************************************)
EndsWith(s, suffix) ==
    /\ Len(suffix) <= Len(s)
    /\ SubSeq(s, Len(s) - Len(suffix) + 1, Len(s)) = suffix

\* re.sub(r"(USD|USDT)$", "", a)
StripQuote(a) ==
    IF EndsWith(a, USDT) THEN SubSeq(a, 1, Len(a) - 4)
    ELSE IF EndsWith(a, USD) THEN SubSeq(a, 1, Len(a) - 3)
    ELSE a

\* the order of Python's str comparison on the characters the model uses
Alphabet == <<"/", "A", "B", "D", "E", "R", "S", "T", "U", "X", "Z", "a", "b">>

CharRank(c) == CHOOSE i \in DOMAIN Alphabet : Alphabet[i] = c

RECURSIVE StrLess(_, _)
StrLess(a, b) ==
    IF a = <<>> THEN b # <<>>
    ELSE IF b = <<>> THEN FALSE
    ELSE IF a[1] = b[1] THEN StrLess(Tail(a), Tail(b))
    ELSE CharRank(a[1]) < CharRank(b[1])

\* sorted(S) for a set S of strings
RECURSIVE Sorted(_)
Sorted(S) ==
    IF S = {} THEN <<>>
    ELSE LET m == CHOOSE x \in S : \A y \in S : y = x \/ StrLess(x, y)
         IN  <<m>> \o Sorted(S \ {m})

\* usd of _discover_usd_symbols: the altnames that end with USD or USDT
UsdAlts(pairs) ==
    { pairs[i].altname : i \in { j \in DOMAIN pairs :
        /\ pairs[j].altname # None
        /\ \/ EndsWith(pairs[j].altname, USD)
           \/ EndsWith(pairs[j].altname, USDT) } }

\* _ensure_universe on the list alts that _discover_usd_symbols returned:
\* simple[:top_n] or CFG["symbols"]
UniverseOf(alts, top_n, symbols) ==
    LET simple == Sorted({ StripQuote(a) : a \in alts })
        cut == Take(simple, top_n)
    IN  IF cut # <<>> THEN cut ELSE symbols

(***************************************************************************)
(* compute_snapshot: the pure parts                                        *)
(***************************************************************************)
NoSnapshot == [ts |-> -1, universe |-> <<>>, data |-> <<>>, pub |-> -1]

\* the mutant: a snapshot exactly ttl old still served
FreshInclusive(now, ts, ttl) == now - ts <= ttl

\* line 233: `payload and now - ts < ttl`, the second half
Fresh(now, ts, ttl) == now - ts < ttl

\* the mutant: a directory that expires
PairsCachedWithTtl(cache, now) == cache.cached /\ now - cache.at < MetaTtl

\* the lru_cache of _asset_pairs holds its value for the life of the process
PairsCached(cache, now) == cache.cached

\* discover_top_n of DEFAULT_CFG
DiscoverTopN == 12

\* alts = [a for a in (_alt_from_symbol(s) for s in symbols) if a]
RECURSIVE AltsOf(_, _)
AltsOf(symbols, pairs) ==
    IF symbols = <<>> THEN <<>>
    ELSE LET a == AltFromSymbol(symbols[1], pairs)
         IN  IF a # None THEN <<a>> \o AltsOf(Tail(symbols), pairs)
             ELSE AltsOf(Tail(symbols), pairs)

\* the i-th element of zip(symbols, alts)
ZipAt(symbols, alts, i) == [sym |-> symbols[i], alt |-> alts[i]]

\* what one loop iteration appends for (sym, alt): the symbol, the pair its
\* numbers were computed for and the version of the ticker the price is from
Record(sym, alt, tick) == [symbol |-> sym, pair |-> alt, price |-> tick]

(***************************************************************************)
(* Each specification below runs one part of the program; the variables of *)
(* the other parts stay at these values.                                   *)
(***************************************************************************)
RsIdle ==
    /\ rs_pc = "off"
    /\ rs_upstream = <<>>
    /\ rs_symbol = None
    /\ rs_pairs = <<>>
    /\ rs_alt = None

BfIdle ==
    /\ bf_pc = "off"
    /\ bf_mom = 0
    /\ bf_whale = 0
    /\ bf_out = [label |-> "HOLD", score |-> 0]

WpIdle ==
    /\ wp_pc = "off"
    /\ wp_depth = [bids |-> <<>>, asks |-> <<>>]
    /\ wp_min_usd = 0
    /\ wp_max_levels = 0
    /\ wp_out = [bid_usd |-> 0]

EpIdle ==
    /\ ep_pc = "off"
    /\ ep_mom = 0
    /\ ep_whale = 0
    /\ ep_price = 0
    /\ ep_atr = 0
    /\ ep_reason = [bias |-> "HOLD", score |-> 0, entry |-> NoPlan]

AllThreads == 1..NThreads

Key(f, p) == [feed |-> f, pair |-> p]
NoKey == Key("none", None)

ThStart ==
    [pc |-> "idle", calls |-> 0, now |-> 0, seen |-> FALSE, r_ts |-> -1,
     caller |-> "none", pairs |-> <<>>, symbols |-> <<>>, alts |-> <<>>,
     ticker |-> -1, i |-> 0, data |-> <<>>, snap |-> NoSnapshot,
     fetched |-> {}, failed |-> NoKey, result |-> NoSnapshot, hit |-> FALSE,
     entry_pub |-> -1, dir_hit_at |-> -1]

SnIdle ==
    /\ cfg = [symbols |-> <<>>, ttl |-> 0, discover |-> FALSE]
    /\ clock = 0
    /\ feed = 0
    /\ snapshot_cache = [ts |-> 0, payload |-> NoSnapshot]
    /\ pairs_cache = [cached |-> FALSE, value |-> <<>>, at |-> -1]
    /\ threads = {}
    /\ th = [t \in AllThreads |-> ThStart]

(***************************************************************************)
(* Specification of pair resolution                                        *)
(***************************************************************************)
SymA == <<"A">>
SymB == <<"B">>
SymAB == <<"A", "B">>
SymZ == <<"Z">>

Meta(code, alt, ws, base, quote) ==
    [code |-> code, altname |-> alt, wsname |-> ws, base |-> base, quote |-> quote]

\* the listings the venue may return; the sixth has an altname that differs
\* from its wsname, the seventh has no wsname
PairPool ==
    { Meta("c1", SymA \o USD, SymA \o Slash \o USD, SymA, USD),
      Meta("c2", SymA \o USDT, SymA \o Slash \o USDT, SymA, USDT),
      Meta("c3", SymA \o EUR, SymA \o Slash \o EUR, SymA, EUR),
      Meta("c4", SymB \o USDT, SymB \o Slash \o USDT, SymB, USDT),
      Meta("c5", SymAB \o USD, SymAB \o Slash \o USD, SymAB, USD),
      Meta("c6", <<"X", "B", "E", "U", "R">>, SymB \o Slash \o EUR, SymB, EUR),
      Meta("c7", SymB \o EUR, None, SymB, EUR) }

\* result.items() has one entry per venue code
Results ==
    { r \in UNION { [1..n -> PairPool] : n \in 0..MaxDir } :
        \A i, j \in DOMAIN r : i # j => r[i].code # r[j].code }

RsSymbols == { SymA, SymB, <<"a">>, SymAB, SymZ }

RsInit ==
    /\ rs_pc = "start"
    /\ rs_upstream \in Results
    /\ rs_symbol \in RsSymbols
    /\ rs_pairs = <<>>
    /\ rs_alt = None

RsAssetPairs ==
    /\ rs_pc = "start"
    /\ rs_pairs' = BuildPairs(rs_upstream)
    /\ rs_pc' = "fetched"
    /\ UNCHANGED <<rs_upstream, rs_symbol, rs_alt>>
    /\ UNCHANGED <<bfVars, wpVars, epVars, snVars>>

RsAltFromSymbol ==
    /\ rs_pc = "fetched"
    /\ rs_alt' = AltFromSymbol(rs_symbol, rs_pairs)
    /\ rs_pc' = "resolved"
    /\ UNCHANGED <<rs_upstream, rs_symbol, rs_pairs>>
    /\ UNCHANGED <<bfVars, wpVars, epVars, snVars>>

RsNext == RsAssetPairs \/ RsAltFromSymbol

ResolveInit == RsInit /\ BfIdle /\ WpIdle /\ EpIdle /\ SnIdle

SpecResolve == ResolveInit /\ [][RsNext]_vars

QuoteOfAlt(pairs, alt) == pairs[KeyIndex(pairs, alt)].quote

\* C3 as stated: the result is the USD pair when SYMBOL+USD is in the
\* directory, else the USDT pair when SYMBOL+USDT is, and no pair at all
\* (PairNotFound) when neither is; a returned pair never has a quote outside
\* the preference list [USD, USDT].
C3_OnlyPreferredQuotes ==
    rs_pc = "resolved" =>
        LET s == Upper(rs_symbol)
        IN  /\ HasKey(rs_pairs, s \o USD) => rs_alt = s \o USD
            /\ (~HasKey(rs_pairs, s \o USD) /\ HasKey(rs_pairs, s \o USDT))
                   => rs_alt = s \o USDT
            /\ (~HasKey(rs_pairs, s \o USD) /\ ~HasKey(rs_pairs, s \o USDT))
                   => rs_alt = None
            /\ rs_alt # None => QuoteOfAlt(rs_pairs, rs_alt) \in {USD, USDT}

\* C3 amended: SYMBOL+"USD" when that altname is in the directory, else
\* SYMBOL+"USDT" when that one is, else the altname of the first listing, in
\* directory order, whose wsname starts with SYMBOL+"/" (whatever its quote),
\* and no pair only when there is none of the three.
C3_ResolveOrder ==
    rs_pc = "resolved" =>
        LET s == Upper(rs_symbol)
            usd == \E i \in DOMAIN rs_pairs : rs_pairs[i].altname = s \o USD
            usdt == \E i \in DOMAIN rs_pairs : rs_pairs[i].altname = s \o USDT
            ws == { i \in DOMAIN rs_pairs :
                      /\ Len(rs_pairs[i].wsname) > Len(s)
                      /\ \A k \in 1..Len(s) : rs_pairs[i].wsname[k] = s[k]
                      /\ rs_pairs[i].wsname[Len(s) + 1] = "/" }
        IN  /\ usd => rs_alt = s \o USD
            /\ (~usd /\ usdt) => rs_alt = s \o USDT
            /\ (~usd /\ ~usdt /\ ws # {}) =>
                   \E i \in ws : /\ rs_alt = rs_pairs[i].altname
                                 /\ \A j \in ws : i <= j
            /\ (~usd /\ ~usdt /\ ws = {}) => rs_alt = None

\* the symbol has no USD altname but a USDT one, and resolves to it
C3_Witness ==
    /\ rs_pc = "resolved"
    /\ ~HasKey(rs_pairs, Upper(rs_symbol) \o USD)
    /\ HasKey(rs_pairs, Upper(rs_symbol) \o USDT)
    /\ rs_alt = Upper(rs_symbol) \o USDT

(***************************************************************************)
(* Specification of _bias_from_features                                    *)
(***************************************************************************)
\* whale_score is in [-1, 1]: -100..100 hundredths
BfInit ==
    /\ bf_pc = "start"
    /\ bf_mom \in -MaxMom..MaxMom
    /\ bf_whale \in -100..100
    /\ bf_out = [label |-> "HOLD", score |-> 0]

BfClassify ==
    /\ bf_pc = "start"
    /\ bf_out' = BiasFromFeatures(bf_mom, bf_whale)
    /\ bf_pc' = "done"
    /\ UNCHANGED <<bf_mom, bf_whale>>
    /\ UNCHANGED <<rsVars, wpVars, epVars, snVars>>

BfNext == BfClassify

BiasInit == BfInit /\ RsIdle /\ WpIdle /\ EpIdle /\ SnIdle

SpecBias == BiasInit /\ [][BfNext]_vars

\* C7: for every momentum and every imbalance in [-1, 1] the score is in
\* [-1, 1], and the label is BUY exactly when score > 0.25, SELL exactly when
\* score < -0.25, and HOLD on -0.25 <= score <= 0.25, both ends included.
C7_ScoreAndLabel ==
    bf_pc = "done" =>
        /\ bf_out.score >= -1000
        /\ bf_out.score <= 1000
        /\ (bf_out.label = "BUY") <=> (bf_out.score > 250)
        /\ (bf_out.label = "SELL") <=> (bf_out.score < -250)
        /\ (bf_out.score >= -250 /\ bf_out.score <= 250) => bf_out.label = "HOLD"
        /\ bf_out.label \in {"BUY", "SELL", "HOLD"}

\* a score exactly on the high threshold is HOLD, and a blend above 1 was clamped
C7_Witness ==
    /\ bf_pc = "done"
    /\ \/ bf_out.score = 250 /\ bf_out.label = "HOLD" /\ bf_whale = 25
       \/ bf_out.score = 1000 /\ 6 * bf_whale + 4 * bf_mom > 1000

(***************************************************************************)
(* Specification of _whale_pressure                                        *)
(***************************************************************************)
\* (price, qty) of a level; notionals 2, 6 and 12
LevelPool == { <<1, 2>>, <<2, 3>>, <<3, 4>> }

Sides == UNION { [1..n -> LevelPool] : n \in 0..MaxLevels }

WpInit ==
    /\ wp_pc = "start"
    /\ wp_depth \in [bids : Sides, asks : Sides]
    /\ wp_min_usd \in {0, 6, 7}
    /\ wp_max_levels \in {1, MaxLevels + 1}
    /\ wp_out = [bid_usd |-> 0]

WpWhalePressure ==
    /\ wp_pc = "start"
    /\ wp_out' = WhalePressure(wp_depth, wp_min_usd, wp_max_levels)
    /\ wp_pc' = "done"
    /\ UNCHANGED <<wp_depth, wp_min_usd, wp_max_levels>>
    /\ UNCHANGED <<rsVars, bfVars, epVars, snVars>>

WpNext == WpWhalePressure

WhaleInit == WpInit /\ RsIdle /\ BfIdle /\ EpIdle /\ SnIdle

SpecWhale == WhaleInit /\ [][WpNext]_vars

RECURSIVE SumOver(_, _)
SumOver(S, f) ==
    IF S = {} THEN 0
    ELSE LET x == CHOOSE y \in S : TRUE
         IN  f[x] + SumOver(S \ {x}, f)

Notional(side) == [i \in DOMAIN side |-> side[i][1] * side[i][2]]

\* C9 as stated: each side's USD total is the sum of price*qty over ALL the
\* levels of that side, whatever the floor and the cap.
C9_TotalOverAllLevels ==
    wp_pc = "done" =>
        /\ wp_out.bid_usd = SumOver(DOMAIN wp_depth.bids, Notional(wp_depth.bids))
        /\ wp_out.ask_usd = SumOver(DOMAIN wp_depth.asks, Notional(wp_depth.asks))

\* C9 amended: each side's USD total is the sum of price*qty over the levels
\* among the first max_levels of that side whose notional is at least min_usd
\* (so never more than the sum over all levels).
C9_TotalOverWhaleLevels ==
    wp_pc = "done" =>
        LET Whales(side) ==
                { i \in DOMAIN side :
                    /\ i <= wp_max_levels
                    /\ side[i][1] * side[i][2] >= wp_min_usd }
        IN  /\ wp_out.bid_usd = SumOver(Whales(wp_depth.bids), Notional(wp_depth.bids))
            /\ wp_out.ask_usd = SumOver(Whales(wp_depth.asks), Notional(wp_depth.asks))
            /\ wp_out.bid_usd <= SumOver(DOMAIN wp_depth.bids, Notional(wp_depth.bids))
            /\ wp_out.ask_usd <= SumOver(DOMAIN wp_depth.asks, Notional(wp_depth.asks))

\* a bid side with a level under the floor and a level over it, and a total
\* that leaves the first out
C9_Witness ==
    /\ wp_pc = "done"
    /\ wp_min_usd = 6
    /\ wp_depth.bids = << <<1, 2>>, <<3, 4>> >>
    /\ wp_max_levels > 1
    /\ wp_out.bid_usd = 12

(***************************************************************************)
(* Specification of the signal part of a compute_snapshot iteration        *)
(***************************************************************************)
\* price is 0.0 when the ticker has no "c"; atr is 0.0 under 6 candles
EpInit ==
    /\ ep_pc = "start"
    /\ ep_mom \in {-50, 0, 50}
    /\ ep_whale \in {-100, -25, 0, 25, 100}
    /\ ep_price \in {0, 1, 150, 2000, 1000500}
    /\ ep_atr \in {0, 1, 3, 250, 40000}
    /\ ep_reason = [bias |-> "HOLD", score |-> 0, entry |-> NoPlan]

EpReason ==
    /\ ep_pc = "start"
    /\ ep_reason' = Reason(ep_mom, ep_whale, ep_price, ep_atr)
    /\ ep_pc' = "done"
    /\ UNCHANGED <<ep_mom, ep_whale, ep_price, ep_atr>>
    /\ UNCHANGED <<rsVars, bfVars, wpVars, snVars>>

EpNext == EpReason

EntryInit == EpInit /\ RsIdle /\ BfIdle /\ WpIdle /\ SnIdle

SpecEntry == EntryInit /\ [][EpNext]_vars

\* C8 as stated: there is no plan if and only if the label is HOLD or the
\* volatility is 0, and a plan has riskReward > 0.
C8_NoPlanIffHoldOrFlat ==
    ep_pc = "done" =>
        /\ (ep_reason.entry = NoPlan) <=> (ep_reason.bias = "HOLD" \/ ep_atr = 0)
        /\ ep_reason.entry # NoPlan => ep_reason.entry.rr > 0

\* C8 amended: there is a plan for every label and every volatility; its
\* riskReward is never negative, is 0.0 when price and volatility are both 0,
\* and is at least 1.2 when the volatility used (atr, or 0.5% of the price
\* when atr <= 0) is at least 1e-9.
C8_AlwaysAPlan ==
    ep_pc = "done" =>
        /\ ep_reason.entry # NoPlan
        /\ ep_reason.entry.rr >= 0
        /\ ep_reason.entry.rr <= 200
        /\ (ep_atr = 0 /\ ep_price = 0) => ep_reason.entry.rr = 0
        /\ (ep_atr >= 1 \/ (ep_atr = 0 /\ ep_price >= 200)) => ep_reason.entry.rr >= 120

\* a HOLD record without volatility that carries a plan
C8_Witness ==
    /\ ep_pc = "done"
    /\ ep_reason.bias = "HOLD"
    /\ ep_atr = 0
    /\ ep_price > 0
    /\ ep_reason.entry # NoPlan
    /\ ep_reason.entry.rr > 0

(***************************************************************************)
(* Specification of compute_snapshot.  Each request thread runs            *)
(* compute_snapshot; a step is one read or write of the shared caches or   *)
(* one upstream request, which either answers or raises.                   *)
(***************************************************************************)
\* what the venue lists: A/USD and B/USDT; Z is not listed
VenueResult ==
    << Meta("c1", SymA \o USD, SymA \o Slash \o USD, SymA, USD),
       Meta("c4", SymB \o USDT, SymB \o Slash \o USDT, SymB, USDT) >>

SnapSymbols == { SymA, SymB, SymZ }

\* CFG["symbols"]: the lists of distinct symbols
Universes ==
    { u \in UNION { [1..n -> SnapSymbols] : n \in 0..Cardinality(SnapSymbols) } :
        \A i, j \in DOMAIN u : i # j => u[i] # u[j] }

\* the configurations: with discovery on, CFG["symbols"] is only the fallback
\* and is kept short
Configs ==
    { c \in [symbols : Universes, ttl : 1..MaxTtl, discover : BOOLEAN] :
        c.discover => Len(c.symbols) <= 1 }

SnInit(T, C) ==
    /\ cfg \in C
    /\ clock = 0
    /\ feed = 0
    /\ snapshot_cache = [ts |-> 0, payload |-> NoSnapshot]
    /\ pairs_cache = [cached |-> FALSE, value |-> <<>>, at |-> -1]
    /\ threads = T
    /\ th = [t \in AllThreads |-> ThStart]

Rest == UNCHANGED <<rsVars, bfVars, wpVars, epVars, cfg, threads>>

\* the locals of a call that ended: only what the caller can see is kept
Ended(r, pc) ==
    [r EXCEPT !.pc = pc, !.seen = FALSE, !.r_ts = -1, !.caller = "none",
              !.pairs = <<>>, !.ticker = -1, !.i = 0,
              !.data = <<>>, !.snap = NoSnapshot]

\* an exception leaves compute_snapshot
Raise(r, key) == [Ended(r, "raised") EXCEPT !.failed = key]

\* a request enters compute_snapshot: line 232, now = time.time()
Call(t) ==
    /\ th[t].pc \in {"idle", "done", "raised"}
    /\ th[t].calls < MaxCalls
    /\ th' = [th EXCEPT ![t] =
                [ThStart EXCEPT !.pc = "check_payload",
                                !.calls = th[t].calls + 1,
                                !.now = clock,
                                !.entry_pub = snapshot_cache.payload.pub]]
    /\ UNCHANGED <<clock, feed, snapshot_cache, pairs_cache>>
    /\ Rest

\* line 233, the read of _snapshot_cache["payload"]
CheckPayload(t) ==
    /\ th[t].pc = "check_payload"
    /\ th' = [th EXCEPT ![t] =
                IF snapshot_cache.payload # NoSnapshot
                THEN [@ EXCEPT !.seen = TRUE, !.pc = "check_ts"]
                ELSE [@ EXCEPT !.pc = "universe"]]
    /\ UNCHANGED <<clock, feed, snapshot_cache, pairs_cache>>
    /\ Rest

\* line 233, the read of _snapshot_cache["ts"]
CheckTs(t) ==
    /\ th[t].pc = "check_ts"
    /\ th' = [th EXCEPT ![t] =
                IF Fresh(th[t].now, snapshot_cache.ts, cfg.ttl)
                THEN [@ EXCEPT !.r_ts = snapshot_cache.ts, !.pc = "return_cached"]
                ELSE [@ EXCEPT !.r_ts = snapshot_cache.ts, !.pc = "universe"]]
    /\ UNCHANGED <<clock, feed, snapshot_cache, pairs_cache>>
    /\ Rest

\* line 234
ReturnCached(t) ==
    /\ th[t].pc = "return_cached"
    /\ th' = [th EXCEPT ![t] =
                [Ended(@, "done") EXCEPT !.result = snapshot_cache.payload,
                                         !.hit = TRUE]]
    /\ UNCHANGED <<clock, feed, snapshot_cache, pairs_cache>>
    /\ Rest

\* line 236, _ensure_universe: without discovery it is CFG["symbols"]
EnsureUniverse(t) ==
    /\ th[t].pc = "universe"
    /\ th' = [th EXCEPT ![t] =
                IF cfg.discover
                THEN [@ EXCEPT !.caller = "discover", !.pc = "pairs_lookup"]
                ELSE [@ EXCEPT !.symbols = cfg.symbols, !.pc = "resolve"]]
    /\ UNCHANGED <<clock, feed, snapshot_cache, pairs_cache>>
    /\ Rest

\* line 237, before the first _alt_from_symbol: no symbol, no call
Resolve(t) ==
    /\ th[t].pc = "resolve"
    /\ th' = [th EXCEPT ![t] =
                IF th[t].symbols = <<>>
                THEN [@ EXCEPT !.alts = <<>>, !.pc = "ticker"]
                ELSE [@ EXCEPT !.caller = "resolve", !.pc = "pairs_lookup"]]
    /\ UNCHANGED <<clock, feed, snapshot_cache, pairs_cache>>
    /\ Rest

\* the caller of _asset_pairs goes on with the directory d: _discover_usd_symbols
\* to its Ticker request (or returns [] when no pair ends with USD or USDT),
\* compute_snapshot to the list of alts
AfterPairs(r, d) ==
    IF r.caller = "discover"
    THEN IF UsdAlts(d) = {}
         THEN [r EXCEPT !.symbols = UniverseOf({}, DiscoverTopN, cfg.symbols),
                        !.caller = "none", !.pc = "resolve"]
         ELSE [r EXCEPT !.pairs = d, !.pc = "disc_ticker"]
    ELSE [r EXCEPT !.alts = AltsOf(r.symbols, d), !.caller = "none", !.pc = "ticker"]

\* _asset_pairs(), the lookup in the lru_cache
PairsLookup(t) ==
    /\ th[t].pc = "pairs_lookup"
    /\ th' = [th EXCEPT ![t] =
                IF PairsCached(pairs_cache, clock)
                THEN AfterPairs([@ EXCEPT !.dir_hit_at = clock], pairs_cache.value)
                ELSE [@ EXCEPT !.pc = "pairs_fetch"]]
    /\ UNCHANGED <<clock, feed, snapshot_cache, pairs_cache>>
    /\ Rest

\* _asset_pairs(), the body: the request answers and the result is cached, or
\* it raises; _ensure_universe catches the exception, compute_snapshot does not
PairsFetch(t) ==
    /\ th[t].pc = "pairs_fetch"
    /\ LET r == [th[t] EXCEPT !.fetched = @ \cup {Key("pairs", None)}]
       IN  \/ /\ pairs_cache' = [cached |-> TRUE, value |-> BuildPairs(VenueResult),
                                 at |-> clock]
              /\ th' = [th EXCEPT ![t] = AfterPairs(r, BuildPairs(VenueResult))]
           \/ /\ UNCHANGED pairs_cache
              /\ th' = [th EXCEPT ![t] =
                          IF r.caller = "discover"
                          THEN [r EXCEPT !.symbols = cfg.symbols,
                                         !.caller = "none", !.pc = "resolve"]
                          ELSE Raise(r, Key("pairs", None))]
    /\ UNCHANGED <<clock, feed, snapshot_cache>>
    /\ Rest

\* the Ticker request of _discover_usd_symbols: it answers for some of the
\* pairs asked, or it raises and _ensure_universe falls back to CFG["symbols"]
DiscoverTicker(t) ==
    /\ th[t].pc = "disc_ticker"
    /\ LET r == [th[t] EXCEPT !.fetched = @ \cup {Key("discover", None)},
                              !.pairs = <<>>, !.caller = "none", !.pc = "resolve"]
       IN  \/ \E K \in SUBSET UsdAlts(th[t].pairs) :
                th' = [th EXCEPT ![t] =
                         [r EXCEPT !.symbols = UniverseOf(K, DiscoverTopN, cfg.symbols)]]
           \/ th' = [th EXCEPT ![t] = [r EXCEPT !.symbols = cfg.symbols]]
    /\ UNCHANGED <<clock, feed, snapshot_cache, pairs_cache>>
    /\ Rest

\* line 239, _ticker_many(alts): no request for an empty list
TickerMany(t) ==
    /\ th[t].pc = "ticker"
    /\ LET next == IF Len(th[t].alts) = 0 THEN "assemble" ELSE "depth"
           r == [th[t] EXCEPT !.fetched = @ \cup {Key("ticker", None)}]
       IN  \/ /\ th[t].alts = <<>>
              /\ th' = [th EXCEPT ![t] = [@ EXCEPT !.pc = next]]
           \/ /\ th[t].alts # <<>>
              /\ th' = [th EXCEPT ![t] =
                          [r EXCEPT !.ticker = feed, !.i = 1, !.pc = next]]
           \/ /\ th[t].alts # <<>>
              /\ th' = [th EXCEPT ![t] = Raise(r, Key("ticker", None))]
    /\ UNCHANGED <<clock, feed, snapshot_cache, pairs_cache>>
    /\ Rest

\* line 250, _depth(alt) in the loop over zip(symbols, alts)
Depth(t) ==
    /\ th[t].pc = "depth"
    /\ LET z == ZipAt(th[t].symbols, th[t].alts, th[t].i)
           r == [th[t] EXCEPT !.fetched = @ \cup {Key("depth", z.alt)}]
       IN  \/ th' = [th EXCEPT ![t] = [r EXCEPT !.pc = "ohlc"]]
           \/ th' = [th EXCEPT ![t] = Raise(r, Key("depth", z.alt))]
    /\ UNCHANGED <<clock, feed, snapshot_cache, pairs_cache>>
    /\ Rest

\* lines 251-288: _ohlc(alt), then the record of this (sym, alt)
Ohlc(t) ==
    /\ th[t].pc = "ohlc"
    /\ LET z == ZipAt(th[t].symbols, th[t].alts, th[t].i)
           r == [th[t] EXCEPT !.fetched = @ \cup {Key("ohlc", z.alt)}]
       IN  \/ th' = [th EXCEPT ![t] =
                       [r EXCEPT !.data = Append(@, Record(z.sym, z.alt, r.ticker)),
                                 !.i = @ + 1,
                                 !.pc = IF r.i + 1 > Len(r.alts) THEN "assemble"
                                        ELSE "depth"]]
           \/ th' = [th EXCEPT ![t] = Raise(r, Key("ohlc", z.alt))]
    /\ UNCHANGED <<clock, feed, snapshot_cache, pairs_cache>>
    /\ Rest

\* lines 292-298: the snapshot is built
Assemble(t) ==
    /\ th[t].pc = "assemble"
    /\ th' = [th EXCEPT ![t] =
                [@ EXCEPT !.snap = [ts |-> clock, universe |-> th[t].symbols,
                                    data |-> th[t].data, pub |-> -1],
                          !.pc = "publish_ts"]]
    /\ UNCHANGED <<clock, feed, snapshot_cache, pairs_cache>>
    /\ Rest

\* line 299: _snapshot_cache["ts"] = time.time().  pub, the time a snapshot is
\* published with, is not in the payload of the program: it is kept to tell
\* the publishes apart.
PublishTs(t) ==
    /\ th[t].pc = "publish_ts"
    /\ snapshot_cache' = [snapshot_cache EXCEPT !.ts = clock]
    /\ th' = [th EXCEPT ![t] = [@ EXCEPT !.snap.pub = clock, !.pc = "publish_payload"]]
    /\ UNCHANGED <<clock, feed, pairs_cache>>
    /\ Rest

\* lines 300-301: _snapshot_cache["payload"] = snapshot; return snapshot
PublishPayload(t) ==
    /\ th[t].pc = "publish_payload"
    /\ snapshot_cache' = [snapshot_cache EXCEPT !.payload = th[t].snap]
    /\ th' = [th EXCEPT ![t] = [Ended(@, "done") EXCEPT !.result = th[t].snap]]
    /\ UNCHANGED <<clock, feed, pairs_cache>>
    /\ Rest

\* time passes
Tick ==
    /\ clock < MaxClock
    /\ clock' = clock + 1
    /\ UNCHANGED <<feed, snapshot_cache, pairs_cache, th>>
    /\ Rest

\* the venue's market data changes, from one of its two versions to the other
FeedChange ==
    /\ feed' = 1 - feed
    /\ UNCHANGED <<clock, snapshot_cache, pairs_cache, th>>
    /\ Rest

SnNext ==
    \/ \E t \in threads : Call(t)
    \/ \E t \in threads : CheckPayload(t)
    \/ \E t \in threads : CheckTs(t)
    \/ \E t \in threads : ReturnCached(t)
    \/ \E t \in threads : EnsureUniverse(t)
    \/ \E t \in threads : Resolve(t)
    \/ \E t \in threads : PairsLookup(t)
    \/ \E t \in threads : PairsFetch(t)
    \/ \E t \in threads : DiscoverTicker(t)
    \/ \E t \in threads : TickerMany(t)
    \/ \E t \in threads : Depth(t)
    \/ \E t \in threads : Ohlc(t)
    \/ \E t \in threads : Assemble(t)
    \/ \E t \in threads : PublishTs(t)
    \/ \E t \in threads : PublishPayload(t)
    \/ Tick
    \/ FeedChange

\* one request at a time
SeqInit == SnInit({1}, Configs) /\ RsIdle /\ BfIdle /\ WpIdle /\ EpIdle

SpecSeq == SeqInit /\ [][SnNext]_vars

\* the requests of a threaded server (app.run serves each request on a thread
\* of its own), for the universes of one symbol, discovery off and market data
\* that stays as it is
ConcConfigs == { c \in Configs : Len(c.symbols) = 1 /\ c.ttl = 1 /\ ~c.discover }

ConcNext ==
    \/ \E t \in threads : Call(t)
    \/ \E t \in threads : CheckPayload(t)
    \/ \E t \in threads : CheckTs(t)
    \/ \E t \in threads : ReturnCached(t)
    \/ \E t \in threads : EnsureUniverse(t)
    \/ \E t \in threads : Resolve(t)
    \/ \E t \in threads : PairsLookup(t)
    \/ \E t \in threads : PairsFetch(t)
    \/ \E t \in threads : TickerMany(t)
    \/ \E t \in threads : Depth(t)
    \/ \E t \in threads : Ohlc(t)
    \/ \E t \in threads : Assemble(t)
    \/ \E t \in threads : PublishTs(t)
    \/ \E t \in threads : PublishPayload(t)
    \/ Tick

ConcInit == SnInit(AllThreads, ConcConfigs) /\ RsIdle /\ BfIdle /\ WpIdle /\ EpIdle

SpecConc == ConcInit /\ [][ConcNext]_vars

(***************************************************************************)
(* Claims about compute_snapshot                                           *)
(***************************************************************************)
Directory == BuildPairs(VenueResult)

Returned(t) == th[t].pc = "done"
Left(t) == th[t].pc \in {"done", "raised"}
InCall(t) == th[t].pc \notin {"idle", "done", "raised"}

HasRecord(snap, sym) == \E k \in DOMAIN snap.data : snap.data[k].symbol = sym

\* C1: when the depth or candle request of one symbol's pair fails, the call
\* still returns a snapshot, with a record for every other symbol that
\* resolves.
C1_PartialFailureTolerated ==
    \A t \in threads :
        LET others == { k \in DOMAIN th[t].symbols :
                          LET a == AltFromSymbol(th[t].symbols[k], Directory)
                          IN  a # None /\ a # th[t].failed.pair }
        IN  (Left(t) /\ th[t].failed.feed \in {"depth", "ohlc"} /\ others # {}) =>
                /\ Returned(t)
                /\ \A k \in others : HasRecord(th[t].result, th[t].symbols[k])

\* C2: in a returned snapshot a symbol that does not resolve has no record,
\* and every symbol that resolves has a record, computed from the pair
\* resolved for that symbol, wherever the unresolvable symbol stands.
C2_SkipUnresolvedOnly ==
    \A t \in threads :
        Returned(t) =>
            \A k \in DOMAIN th[t].result.universe :
                LET sym == th[t].result.universe[k]
                    a == AltFromSymbol(sym, Directory)
                    recs == { j \in DOMAIN th[t].result.data :
                                th[t].result.data[j].symbol = sym }
                IN  /\ a = None => recs = {}
                    /\ a # None => recs # {}
                    /\ \A j \in recs : th[t].result.data[j].pair = a

\* every pair of the call was asked for again
Refetched(r) ==
    /\ r.alts # <<>> => Key("ticker", None) \in r.fetched
    /\ \A k \in DOMAIN r.alts :
         /\ Key("depth", r.alts[k]) \in r.fetched
         /\ Key("ohlc", r.alts[k]) \in r.fetched

\* C4: a call made less than ttl after the publish of the cached snapshot
\* returns that snapshot and makes no upstream request; a call made ttl or
\* more after it (or with nothing cached) is not served from the cache: it
\* asks upstream again, and what it returns is a snapshot published by itself.
C4_CacheWithinTtl ==
    \A t \in threads :
        Left(t) =>
            LET r == th[t]
                within == r.entry_pub # -1 /\ r.now - r.entry_pub < cfg.ttl
            IN  /\ within =>
                      /\ Returned(t)
                      /\ r.hit
                      /\ r.fetched = {}
                      /\ r.result.pub = r.entry_pub
                      /\ r.result = snapshot_cache.payload
                /\ ~within =>
                      /\ ~r.hit
                      /\ Returned(t) => (Refetched(r) /\ r.result.pub >= r.now)
                      /\ ~Returned(t) => r.failed \in r.fetched

\* a second call, one second after the publish and within a ttl of two, that
\* returned the cached records although the venue's data had changed
C4_Witness ==
    \E t \in threads :
        /\ Returned(t)
        /\ th[t].hit
        /\ th[t].calls = 2
        /\ th[t].now - th[t].entry_pub = 1
        /\ th[t].result.data # <<>>
        /\ th[t].result.data[1].price # feed

\* C5: two requests in compute_snapshot at the same time have never both
\* asked upstream for the same key.
C5_SingleFlight ==
    \A t1, t2 \in threads :
        (t1 # t2 /\ InCall(t1) /\ InCall(t2)) =>
            th[t1].fetched \cap th[t2].fetched = {}

\* C6: a call that returns the cached snapshot returns one whose own publish
\* is less than ttl old (what it could not be if the timestamp it compared
\* belonged to another publish than the payload it returns).
C6_AtomicPublish ==
    \A t \in threads :
        (Returned(t) /\ th[t].hit) =>
            th[t].now - th[t].result.pub < cfg.ttl

\* C10 as stated: the directory is fetched again on the first access after
\* its TTL, so no access is served from a directory fetched a TTL or more ago.
C10_RefreshAfterTtl ==
    \A t \in threads :
        th[t].dir_hit_at # -1 => th[t].dir_hit_at - pairs_cache.at < MetaTtl

\* C10 amended: the directory is fetched on the first access that needs it
\* and is then cached for the life of the process: once cached it never
\* changes and is never fetched again, however old; a fetch that fails caches
\* nothing and makes compute_snapshot raise.
C10_CachedForLife ==
    /\ [](\A t \in threads :
            /\ th[t].dir_hit_at # -1 => pairs_cache.cached
            /\ (th[t].pc = "raised" /\ th[t].failed = Key("pairs", None))
                   => ~pairs_cache.cached)
    /\ [][pairs_cache.cached => pairs_cache' = pairs_cache]_vars
    /\ [][(~pairs_cache.cached /\ pairs_cache'.cached)
            => \E t \in threads : th[t].pc = "pairs_fetch"]_vars

\* an access a TTL after the fetch that was served from the cache
C10_Witness ==
    \E t \in threads :
        /\ th[t].dir_hit_at # -1
        /\ th[t].dir_hit_at - pairs_cache.at >= MetaTtl
        /\ Key("pairs", None) \notin th[t].fetched

====
